---- MODULE Spec2Model ----
(***************************************************************************)
(* Model of the two resource managers of the kernel:                       *)
(*   - the buffer cache with per-bucket locks and a global eviction lock   *)
(*     (src/unnamed/part_000), one step per lock-delimited section;        *)
(*   - the reference-counted physical page allocator (src/kernel/kalloc.c).*)
(***************************************************************************)
EXTENDS Integers, Sequences, FiniteSets, TLC

(***************************************************************************)
(* Bounds of the model and program constants.                              *)
(***************************************************************************)
NBUF == 2
NTHREADS == 2
MaxTicks == 1
MaxPins == 1
MaxBread == 4
MaxBioBread == 3
MaxKCalls == 5
MaxRef == 2
NFRAMES == 4
NBUCKETS == 13
ROOTDEV == 1
PGSIZE == 4096

Bufs == 1..NBUF
Threads == 1..NTHREADS
Buckets == 0..(NBUCKETS - 1)
BlockNos == {1, 2, 14}

VARIABLES
  dev, blockno, valid, refcnt, bticks,   \* fields of struct buf
  next, prev,                            \* list links of buffers and bucket heads
  sleeplock,                             \* b->lock: 0 or the holding thread
  bucketsLocks,                          \* bcache.bucketsLocks[k]: 0 or holder
  bcacheLock,                            \* bcache.lock: 0 or holder
  ticks,                                 \* the global tick counter
  panicked,                              \* set by panic()
  pc,                                    \* each thread's position
  t_blockno, t_hashId, t_b, t_i, t_bMin, t_minTicks, t_minId,   \* locals
  t_held,                                \* the buffer bread returned to the caller
  nbread,                                \* history: bread calls made so far
  pins,                                  \* history: bpin calls not yet undone
  ioCount,                               \* history: device reads per binding
  variant                                \* which bio.c the kernel is built with

bcvars == <<dev, blockno, valid, refcnt, bticks, next, prev, sleeplock,
            bucketsLocks, bcacheLock, ticks, panicked, pc, t_blockno,
            t_hashId, t_b, t_i, t_bMin, t_minTicks, t_minId, t_held, nbread,
            pins, ioCount, variant>>

VARIABLES
  ref,                                   \* kref.ref[], by page number
  freelist,                              \* kmem.freelist: an address or 0
  runNext,                               \* r->next of the run stored in a page
  kmemLock, krefLock,                    \* kmem.lock, kref.lock: 0 or holder
  kpc, k_pa, k_temp,                     \* position and locals of each thread
  callers,                               \* which calls the callers may make
  refsHeld,                              \* history: references callers hold
  nkcalls,                               \* history: allocator calls so far
  rt,                                    \* history: kalloc/kfree round trip
  scen, scenFrame, scenRet               \* history: the scripted scenario

kvars == <<ref, freelist, runNext, kmemLock, krefLock, kpc, k_pa, k_temp,
           callers, refsHeld, nkcalls, rt, scen, scenFrame, scenRet>>

bcOther == <<dev, blockno, valid, refcnt, bticks, next, prev, sleeplock,
             bucketsLocks, bcacheLock, ticks, pc, t_blockno, t_hashId, t_b,
             t_i, t_bMin, t_minTicks, t_minId, t_held, nbread, pins, ioCount,
             variant>>

vars == <<bcvars, kvars>>

(***************************************************************************)
(* Helpers of the buffer cache.                                            *)
(***************************************************************************)
haskBlock(block) == block % NBUCKETS

\* &bcache.buckets[k]; buffers are 1..NBUF and 0 is the null pointer
BucketHead(k) == 0 - (k + 1)
BucketHeads == {BucketHead(k) : k \in Buckets}
\* &bcache.head, which binit leaves zeroed
BcacheHead == 0 - (NBUCKETS + 1)
Nodes == Bufs \cup BucketHeads \cup {BcacheHead}

\* binit lines 68-72: insert b next to the head h
BinitInsert(l, b, h) ==
  LET n1 == [l.next EXCEPT ![b] = l.next[h]]
      p1 == [l.prev EXCEPT ![b] = h]
      p2 == [p1 EXCEPT ![n1[h]] = b]
      n2 == [n1 EXCEPT ![h] = b]
  IN  [next |-> n2, prev |-> p2]

RECURSIVE BinitLoop(_, _)
BinitLoop(l, b) ==
  IF b > NBUF THEN l
  ELSE BinitLoop(BinitInsert(l, b, BucketHead(haskBlock(0))), b + 1)

BinitLinks ==
  BinitLoop([next |-> [n \in Nodes |-> IF n \in BucketHeads THEN n ELSE 0],
             prev |-> [n \in Nodes |-> IF n \in BucketHeads THEN n ELSE 0]], 1)

\* the lookup loops of bget (lines 90-97 and 106-114): the first buffer of
\* bucket h bound to (d, bn), or 0
RECURSIVE Lookup(_, _, _, _, _)
Lookup(b, h, d, bn, fuel) ==
  IF b = h \/ b \notin Bufs \/ fuel = 0 THEN 0
  ELSE IF dev[b] = d /\ blockno[b] = bn THEN b
  ELSE Lookup(next[b], h, d, bn, fuel - 1)

FindCached(hashId, d, bn) ==
  Lookup(next[BucketHead(hashId)], BucketHead(hashId), d, bn, NBUF + 1)

\* line 127, b->ticks < minTicks: the uint b->ticks (below 2^31 here) against
\* the int minTicks, which the usual arithmetic conversions make unsigned, so
\* that a negative minTicks (~0) is above every time stamp
UintLess(a, m) == IF m < 0 THEN TRUE ELSE a < m

\* mutant: the scan takes a buffer whatever its refcnt
IsCandidate_AnyRef(b, minTicks) == UintLess(bticks[b], minTicks)

\* line 127: b is unreferenced and older than the best candidate so far
IsCandidate(b, minTicks) == refcnt[b] = 0 /\ UintLess(bticks[b], minTicks)

\* mutant: the previous candidate's bucket stays locked
ScanReleasesPrev_Never(bMin, hashId2, i) == FALSE

\* lines 128-130: is the lock of the previous candidate's bucket released?
ScanReleasesPrev(bMin, hashId2, i) == bMin # 0 /\ hashId2 # i

\* the inner loop of the victim scan (lines 126-138) over bucket i;
\* acc = [bMin, minTicks, minId, valid, locks]
RECURSIVE ScanList(_, _, _, _)
ScanList(b, i, acc, fuel) ==
  IF b = BucketHead(i) \/ b \notin Bufs \/ fuel = 0 THEN acc
  ELSE IF IsCandidate(b, acc.minTicks)
       THEN LET hashId2 == IF acc.bMin # 0 THEN haskBlock(blockno[acc.bMin]) ELSE i
                lk == IF ScanReleasesPrev(acc.bMin, hashId2, i)
                      THEN [acc.locks EXCEPT ![hashId2] = 0]
                      ELSE acc.locks
            IN  ScanList(next[b], i,
                         [bMin |-> b, minTicks |-> bticks[b], minId |-> i,
                          valid |-> 1, locks |-> lk], fuel - 1)
       ELSE ScanList(next[b], i, acc, fuel - 1)

\* mutant: bucket i's lock is released even when the candidate is in it
ScanKeepsLock_Never(v) == FALSE

\* lines 139-140: the scanned bucket's lock is released unless a candidate
\* was found in it
ScanKeepsLock(v) == v # 0

\* mutant: the head is not pointed at bMin
Relink_NoHead(b, h) ==
  LET n1 == [next EXCEPT ![b] = next[h]]
      p1 == [prev EXCEPT ![n1[b]] = b]
      p2 == [p1 EXCEPT ![b] = h]
  IN  [next |-> n1, prev |-> p2]

\* lines 162-166: link bMin next to the head h
Relink(b, h) ==
  LET n1 == [next EXCEPT ![b] = next[h]]
      n2 == [n1 EXCEPT ![h] = b]
      p1 == [prev EXCEPT ![n2[b]] = b]
      p2 == [p1 EXCEPT ![b] = h]
  IN  [next |-> n2, prev |-> p2]

\* mutant: bMin stays in its old list
Unlink_Nothing(b) == [next |-> next, prev |-> prev]

\* lines 155-156: unlink bMin
Unlink(b) ==
  LET n1 == [next EXCEPT ![prev[b]] = next[b]]
      p1 == [prev EXCEPT ![n1[b]] = prev[b]]
  IN  [next |-> n1, prev |-> p1]

BcInit ==
  /\ dev = [b \in Bufs |-> 0]
  /\ blockno = [b \in Bufs |-> 0]
  /\ valid = [b \in Bufs |-> 0]
  /\ refcnt = [b \in Bufs |-> 0]
  /\ bticks = [b \in Bufs |-> 0]
  /\ next = BinitLinks.next
  /\ prev = BinitLinks.prev
  /\ sleeplock = [b \in Bufs |-> 0]
  /\ bucketsLocks = [k \in Buckets |-> 0]
  /\ bcacheLock = 0
  /\ ticks = 0
  /\ panicked = FALSE
  /\ pc = [t \in Threads |-> "idle"]
  /\ t_blockno = [t \in Threads |-> 0]
  /\ t_hashId = [t \in Threads |-> 0]
  /\ t_b = [t \in Threads |-> 0]
  /\ t_held = [t \in Threads |-> 0]
  /\ t_i = [t \in Threads |-> 0]
  /\ t_bMin = [t \in Threads |-> 0]
  /\ t_minTicks = [t \in Threads |-> 0]
  /\ t_minId = [t \in Threads |-> 0]
  /\ nbread = 0
  /\ pins = [b \in Bufs |-> 0]
  /\ ioCount = [b \in Bufs |-> 0]

(***************************************************************************)
(* The page allocator: layout and helpers.  The physical layout is scaled  *)
(* down: the kernel image ends inside the second page and NFRAMES pages    *)
(* follow it up to PHYSTOP.                                                *)
(***************************************************************************)
end == PGSIZE + PGSIZE \div 2
PGROUNDUP(a) == ((a + PGSIZE - 1) \div PGSIZE) * PGSIZE
PHYSTOP == PGROUNDUP(end) + NFRAMES * PGSIZE

Pages == 0..(PHYSTOP \div PGSIZE - 1)
FrameAddrs == {PGROUNDUP(end) + k * PGSIZE : k \in 0..(NFRAMES - 1)}
FirstFrame == PGROUNDUP(end)
LastFrame == PHYSTOP - PGSIZE
\* what a pointer read from a junk-filled page (memset 1 or 5) looks like
JUNK == 0 - 1
PageOf(pa) == pa \div PGSIZE

\* mutant: the upper bound of the address check is missing
KfreeBadAddr_NoTop(pa) == (pa % PGSIZE) # 0 \/ pa < end

\* kfree line 71
KfreeBadAddr(pa) == (pa % PGSIZE) # 0 \/ pa < end \/ pa >= PHYSTOP

\* mutant: kfree goes on to the free list whatever the count
KfreeReturnsEarly_Never(temp) == FALSE

\* kfree line 86: other owners remain, the page is not freed
KfreeReturnsEarly(temp) == temp > 0

\* kfree lines 102-103
Push(fl, nx, r) == [freelist |-> r, runNext |-> [nx EXCEPT ![r] = fl]]

\* the sequential kfree that freerange runs at boot (lines 71-104) on an
\* address of the range, with st = [ref, freelist, runNext]
KfreeBoot(st, pa) ==
  LET n == PageOf(pa)
      r1 == [st.ref EXCEPT ![n] = @ - 1]
      nx1 == [st.runNext EXCEPT ![pa] = JUNK]
      pushed == Push(st.freelist, nx1, pa)
  IN  IF KfreeBadAddr(pa) \/ st.ref[n] <= 0 THEN st
      ELSE IF KfreeReturnsEarly(r1[n]) THEN [st EXCEPT !.ref = r1]
      ELSE [ref |-> r1, freelist |-> pushed.freelist,
            runNext |-> pushed.runNext]

\* freerange lines 55-59
RECURSIVE FreeRangeLoop(_, _, _)
FreeRangeLoop(st, p, pa_end) ==
  IF p + PGSIZE <= pa_end
  THEN FreeRangeLoop(KfreeBoot([st EXCEPT !.ref[PageOf(p)] = 1], p),
                     p + PGSIZE, pa_end)
  ELSE st

freerange(pa_start, pa_end) ==
  FreeRangeLoop([ref |-> [n \in Pages |-> 0], freelist |-> 0,
                 runNext |-> [f \in FrameAddrs |-> JUNK]],
                PGROUNDUP(pa_start), pa_end)

\* kinit line 36
kinit == freerange(end, PHYSTOP)

\* the runs reachable from kmem.freelist, in order
RECURSIVE Chain(_, _)
Chain(p, fuel) ==
  IF p \notin FrameAddrs \/ fuel = 0 THEN <<>>
  ELSE <<p>> \o Chain(runNext[p], fuel - 1)

FreeChain == Chain(freelist, 2 * NFRAMES)
OnFreeList(f) == \E i \in DOMAIN FreeChain : FreeChain[i] = f
CountOnFreeList(f) == Cardinality({i \in DOMAIN FreeChain : FreeChain[i] = f})

KInit ==
  /\ ref = kinit.ref
  /\ freelist = kinit.freelist
  /\ runNext = kinit.runNext
  /\ kmemLock = 0
  /\ krefLock = 0
  /\ kpc = [t \in Threads |-> "idle"]
  /\ k_pa = [t \in Threads |-> 0]
  /\ k_temp = [t \in Threads |-> 0]
  /\ refsHeld = [f \in FrameAddrs |-> 0]
  /\ nkcalls = 0
  /\ rt = [f \in FrameAddrs |-> "none"]
  /\ scen = 0
  /\ scenFrame = 0
  /\ scenRet = 0

Init == BcInit /\ KInit /\ callers = "disciplined" /\ variant = "global"

\* the callers make any call at all, also calls that break the allocator's
\* preconditions
InitAny == BcInit /\ KInit /\ callers = "any" /\ variant = "global"

bufFields == <<dev, blockno, valid, refcnt, bticks>>
links == <<next, prev>>
scanLocals == <<t_i, t_bMin, t_minTicks, t_minId>>
history == <<nbread, pins, ioCount>>

\* a call returns: its locals are dead
Return(t) ==
  /\ pc' = [pc EXCEPT ![t] = "idle"]
  /\ t_blockno' = [t_blockno EXCEPT ![t] = 0]
  /\ t_hashId' = [t_hashId EXCEPT ![t] = 0]
  /\ t_b' = [t_b EXCEPT ![t] = 0]
  /\ t_i' = [t_i EXCEPT ![t] = 0]
  /\ t_bMin' = [t_bMin EXCEPT ![t] = 0]
  /\ t_minTicks' = [t_minTicks EXCEPT ![t] = 0]
  /\ t_minId' = [t_minId EXCEPT ![t] = 0]

\* the timer interrupt advances ticks
Tick ==
  /\ ~panicked
  /\ UNCHANGED <<kvars, variant>>
  /\ ticks < MaxTicks
  /\ ticks' = ticks + 1
  /\ UNCHANGED <<bufFields, links, sleeplock, bucketsLocks, bcacheLock,
                 panicked, pc, t_blockno, t_hashId, t_b, scanLocals, t_held,
                 history>>

(***************************************************************************)
(* bread -> bget.  A caller holds at most one buffer at a time.            *)
(***************************************************************************)
CallBread(t) ==
  /\ ~panicked /\ pc[t] = "idle" /\ t_held[t] = 0
  /\ UNCHANGED <<kvars, variant>>
  /\ nbread < MaxBread
  /\ nbread' = nbread + 1
  /\ \E bn \in BlockNos :
       /\ t_blockno' = [t_blockno EXCEPT ![t] = bn]
       /\ t_hashId' = [t_hashId EXCEPT ![t] = haskBlock(bn)]
  /\ pc' = [pc EXCEPT ![t] = "bget87"]
  /\ UNCHANGED <<bufFields, links, sleeplock, bucketsLocks, bcacheLock, ticks,
                 panicked, t_b, scanLocals, t_held, pins, ioCount>>

\* mutant: a hit in the first lookup does not count the new reference
Bget87_NoRef(t) ==
  /\ ~panicked /\ pc[t] = "bget87"
  /\ UNCHANGED <<kvars, variant>>
  /\ bucketsLocks[t_hashId[t]] = 0
  /\ LET b == FindCached(t_hashId[t], ROOTDEV, t_blockno[t]) IN
       IF b # 0
       THEN /\ t_b' = [t_b EXCEPT ![t] = b]
            /\ pc' = [pc EXCEPT ![t] = "bget94"]
       ELSE /\ pc' = [pc EXCEPT ![t] = "bget101"]
            /\ UNCHANGED t_b
  /\ UNCHANGED <<bufFields, links, sleeplock, bucketsLocks, bcacheLock, ticks,
                 panicked, t_blockno, t_hashId, scanLocals, t_held, history>>

\* lines 87-99: the first lookup, under the bucket's lock
Bget87(t) ==
  /\ ~panicked /\ pc[t] = "bget87"
  /\ UNCHANGED <<kvars, variant>>
  /\ bucketsLocks[t_hashId[t]] = 0
  /\ LET b == FindCached(t_hashId[t], ROOTDEV, t_blockno[t]) IN
       IF b # 0
       THEN /\ refcnt' = [refcnt EXCEPT ![b] = @ + 1]
            /\ t_b' = [t_b EXCEPT ![t] = b]
            /\ pc' = [pc EXCEPT ![t] = "bget94"]
       ELSE /\ pc' = [pc EXCEPT ![t] = "bget101"]
            /\ UNCHANGED <<refcnt, t_b>>
  /\ UNCHANGED <<dev, blockno, valid, bticks, links, sleeplock, bucketsLocks,
                 bcacheLock, ticks, panicked, t_blockno, t_hashId, scanLocals,
                 t_held, history>>

\* mutant: bget goes on without bcache.lock
Bget101_NoLock(t) ==
  /\ ~panicked /\ pc[t] = "bget101"
  /\ UNCHANGED <<kvars, variant>>
  /\ pc' = [pc EXCEPT ![t] = "bget103"]
  /\ UNCHANGED <<bufFields, links, sleeplock, bucketsLocks, bcacheLock, ticks,
                 panicked, t_blockno, t_hashId, t_b, scanLocals, t_held,
                 history>>

\* line 101
Bget101(t) ==
  /\ ~panicked /\ pc[t] = "bget101"
  /\ UNCHANGED <<kvars, variant>>
  /\ bcacheLock = 0
  /\ bcacheLock' = t
  /\ pc' = [pc EXCEPT ![t] = "bget103"]
  /\ UNCHANGED <<bufFields, links, sleeplock, bucketsLocks, ticks, panicked,
                 t_blockno, t_hashId, t_b, scanLocals, t_held, history>>

\* mutant: no second lookup after taking bcache.lock
Recheck_Skipped(hashId, d, bn) == 0

\* the second lookup under bcache.lock (lines 106-114): the buffer found, or 0
Recheck(hashId, d, bn) == FindCached(hashId, d, bn)

\* mutant: a hit in the second lookup goes to sleep holding bcache.lock
Bget103_KeepLock(t) ==
  /\ ~panicked /\ pc[t] = "bget103"
  /\ UNCHANGED <<kvars, variant>>
  /\ bucketsLocks[t_hashId[t]] = 0
  /\ LET b == Recheck(t_hashId[t], ROOTDEV, t_blockno[t]) IN
       IF b # 0
       THEN /\ refcnt' = [refcnt EXCEPT ![b] = @ + 1]
            /\ t_b' = [t_b EXCEPT ![t] = b]
            /\ pc' = [pc EXCEPT ![t] = "bget111"]
            /\ UNCHANGED <<scanLocals, bcacheLock>>
       ELSE /\ t_bMin' = [t_bMin EXCEPT ![t] = 0]
            /\ t_minTicks' = [t_minTicks EXCEPT ![t] = 0 - 1]
            /\ t_minId' = [t_minId EXCEPT ![t] = 0]
            /\ t_i' = [t_i EXCEPT ![t] = 0]
            /\ pc' = [pc EXCEPT ![t] = "bget124"]
            /\ UNCHANGED <<refcnt, t_b, bcacheLock>>
  /\ UNCHANGED <<dev, blockno, valid, bticks, links, sleeplock, bucketsLocks,
                 ticks, panicked, t_blockno, t_hashId, t_held, history>>

\* lines 103-121: the second lookup, under bcache.lock and the bucket's lock
Bget103(t) ==
  /\ ~panicked /\ pc[t] = "bget103"
  /\ UNCHANGED <<kvars, variant>>
  /\ bucketsLocks[t_hashId[t]] = 0
  /\ LET b == Recheck(t_hashId[t], ROOTDEV, t_blockno[t]) IN
       IF b # 0
       THEN /\ refcnt' = [refcnt EXCEPT ![b] = @ + 1]
            /\ t_b' = [t_b EXCEPT ![t] = b]
            /\ bcacheLock' = 0
            /\ pc' = [pc EXCEPT ![t] = "bget111"]
            /\ UNCHANGED scanLocals
       ELSE /\ t_bMin' = [t_bMin EXCEPT ![t] = 0]
            /\ t_minTicks' = [t_minTicks EXCEPT ![t] = 0 - 1]
            /\ t_minId' = [t_minId EXCEPT ![t] = 0]
            /\ t_i' = [t_i EXCEPT ![t] = 0]
            /\ pc' = [pc EXCEPT ![t] = "bget124"]
            /\ UNCHANGED <<refcnt, t_b, bcacheLock>>
  /\ UNCHANGED <<dev, blockno, valid, bticks, links, sleeplock, bucketsLocks,
                 ticks, panicked, t_blockno, t_hashId, t_held, history>>

\* line 124: acquire the lock of bucket i
Bget124(t) ==
  /\ ~panicked /\ pc[t] = "bget124"
  /\ UNCHANGED <<kvars, variant>>
  /\ bucketsLocks[t_i[t]] = 0
  /\ bucketsLocks' = [bucketsLocks EXCEPT ![t_i[t]] = t]
  /\ pc' = [pc EXCEPT ![t] = "bget125"]
  /\ UNCHANGED <<bufFields, links, sleeplock, bcacheLock, ticks, panicked,
                 t_blockno, t_hashId, t_b, scanLocals, t_held, history>>

\* lines 125-141: the rest of one iteration of the outer loop, under the
\* lock of bucket i
Bget125(t) ==
  /\ ~panicked /\ pc[t] = "bget125"
  /\ UNCHANGED <<kvars, variant>>
  /\ LET i == t_i[t]
         acc == ScanList(next[BucketHead(i)], i,
                         [bMin |-> t_bMin[t], minTicks |-> t_minTicks[t],
                          minId |-> t_minId[t], valid |-> 0,
                          locks |-> bucketsLocks],
                         NBUF + 1)
     IN  /\ t_bMin' = [t_bMin EXCEPT ![t] = acc.bMin]
         /\ t_minTicks' = [t_minTicks EXCEPT ![t] = acc.minTicks]
         /\ t_minId' = [t_minId EXCEPT ![t] = acc.minId]
         /\ bucketsLocks' = IF ScanKeepsLock(acc.valid) THEN acc.locks
                            ELSE [acc.locks EXCEPT ![i] = 0]
         /\ t_i' = [t_i EXCEPT ![t] = i + 1]
         /\ pc' = [pc EXCEPT ![t] = IF i + 1 < NBUCKETS THEN "bget124"
                                    ELSE "bget143"]
  /\ UNCHANGED <<bufFields, links, sleeplock, bcacheLock, ticks, panicked,
                 t_blockno, t_hashId, t_b, t_held, history>>

\* lines 143-158: panic when no victim was found, else rebind the victim
Bget143(t) ==
  /\ ~panicked /\ pc[t] = "bget143"
  /\ UNCHANGED <<kvars, variant>>
  /\ LET bMin == t_bMin[t]
         minId == t_minId[t]
     IN
       IF bMin = 0
       THEN /\ bcacheLock' = 0
            /\ panicked' = TRUE
            /\ pc' = [pc EXCEPT ![t] = "panic"]
            /\ UNCHANGED <<bufFields, links, bucketsLocks, t_b, ioCount>>
       ELSE /\ dev' = [dev EXCEPT ![bMin] = ROOTDEV]
            /\ blockno' = [blockno EXCEPT ![bMin] = t_blockno[t]]
            /\ valid' = [valid EXCEPT ![bMin] = 0]
            /\ refcnt' = [refcnt EXCEPT ![bMin] = 1]
            /\ bticks' = [bticks EXCEPT ![bMin] = ticks]
            /\ IF minId # t_hashId[t]
               THEN /\ next' = Unlink(bMin).next
                    /\ prev' = Unlink(bMin).prev
                    /\ pc' = [pc EXCEPT ![t] = "bget161"]
               ELSE /\ UNCHANGED links
                    /\ pc' = [pc EXCEPT ![t] = "bget169"]
            /\ bucketsLocks' = [bucketsLocks EXCEPT ![minId] = 0]
            /\ t_b' = [t_b EXCEPT ![t] = bMin]
            /\ ioCount' = [ioCount EXCEPT ![bMin] = 0]
            /\ UNCHANGED <<bcacheLock, panicked>>
  /\ UNCHANGED <<sleeplock, ticks, t_blockno, t_hashId, scanLocals, t_held,
                 nbread, pins>>

\* lines 161-167: link the victim into the target bucket under its lock
Bget161(t) ==
  /\ ~panicked /\ pc[t] = "bget161"
  /\ UNCHANGED <<kvars, variant>>
  /\ bucketsLocks[t_hashId[t]] = 0
  /\ next' = Relink(t_bMin[t], BucketHead(t_hashId[t])).next
  /\ prev' = Relink(t_bMin[t], BucketHead(t_hashId[t])).prev
  /\ pc' = [pc EXCEPT ![t] = "bget169"]
  /\ UNCHANGED <<bufFields, sleeplock, bucketsLocks, bcacheLock, ticks, panicked,
                 t_blockno, t_hashId, t_b, scanLocals, t_held, history>>

\* mutant: bget forgets to release bcache.lock
Bget169_NoRelease(t) ==
  /\ ~panicked /\ pc[t] = "bget169"
  /\ UNCHANGED <<kvars, variant>>
  /\ pc' = [pc EXCEPT ![t] = "bget170"]
  /\ UNCHANGED <<bufFields, links, sleeplock, bucketsLocks, bcacheLock, ticks,
                 panicked, t_blockno, t_hashId, t_b, scanLocals, t_held,
                 history>>

\* line 169
Bget169(t) ==
  /\ ~panicked /\ pc[t] = "bget169"
  /\ UNCHANGED <<kvars, variant>>
  /\ bcacheLock' = 0
  /\ pc' = [pc EXCEPT ![t] = "bget170"]
  /\ UNCHANGED <<bufFields, links, sleeplock, bucketsLocks, ticks, panicked,
                 t_blockno, t_hashId, t_b, scanLocals, t_held, history>>

SleepPcs == {"bget94", "bget111", "bget170"}

\* acquiresleep(&b->lock) at lines 94, 111 and 170, then bget returns b
AcquireSleep(t) ==
  /\ ~panicked /\ pc[t] \in SleepPcs
  /\ UNCHANGED <<kvars, variant>>
  /\ sleeplock[t_b[t]] = 0
  /\ sleeplock' = [sleeplock EXCEPT ![t_b[t]] = t]
  /\ pc' = [pc EXCEPT ![t] = "bread182"]
  /\ UNCHANGED <<bufFields, links, bucketsLocks, bcacheLock, ticks, panicked,
                 t_blockno, t_hashId, t_b, scanLocals, t_held, history>>

\* mutant: bread reads the device whether or not b is valid
NeedsRead_Always(b) == TRUE

\* bread line 182: does bread go to the device for b?
NeedsRead(b) == valid[b] = 0

\* bread lines 182-183: virtio_disk_rw(b, 0) when b is not valid
Bread182(t) ==
  /\ ~panicked /\ pc[t] = "bread182"
  /\ UNCHANGED <<kvars, variant>>
  /\ IF NeedsRead(t_b[t])
     THEN /\ ioCount' = [ioCount EXCEPT ![t_b[t]] = @ + 1]
          /\ pc' = [pc EXCEPT ![t] = "bread184"]
          /\ UNCHANGED <<t_held, t_blockno, t_hashId, t_b, scanLocals>>
     ELSE /\ Return(t)
          /\ t_held' = [t_held EXCEPT ![t] = t_b[t]]
          /\ UNCHANGED ioCount
  /\ UNCHANGED <<bufFields, links, sleeplock, bucketsLocks, bcacheLock, ticks,
                 panicked, nbread, pins>>

\* bread lines 184-186
Bread184(t) ==
  /\ ~panicked /\ pc[t] = "bread184"
  /\ UNCHANGED <<kvars, variant>>
  /\ valid' = [valid EXCEPT ![t_b[t]] = 1]
  /\ t_held' = [t_held EXCEPT ![t] = t_b[t]]
  /\ Return(t)
  /\ UNCHANGED <<dev, blockno, refcnt, bticks, links, sleeplock, bucketsLocks,
                 bcacheLock, ticks, panicked, history>>

(***************************************************************************)
(* bwrite                                                                  *)
(***************************************************************************)
\* lines 192-193: the caller writes the buffer it got from bread
Bwrite193(t) ==
  /\ ~panicked /\ pc[t] = "idle" /\ t_held[t] # 0
  /\ UNCHANGED <<kvars, variant>>
  /\ t_b' = [t_b EXCEPT ![t] = t_held[t]]
  /\ IF sleeplock[t_held[t]] # t
     THEN /\ panicked' = TRUE
          /\ pc' = [pc EXCEPT ![t] = "panic"]
     ELSE /\ pc' = [pc EXCEPT ![t] = "bwrite195"]
          /\ UNCHANGED panicked
  /\ UNCHANGED <<bufFields, links, sleeplock, bucketsLocks, bcacheLock, ticks,
                 t_blockno, t_hashId, scanLocals, t_held, history>>

\* line 195: virtio_disk_rw(b, 1), then bwrite returns
Bwrite195(t) ==
  /\ ~panicked /\ pc[t] = "bwrite195"
  /\ UNCHANGED <<kvars, variant>>
  /\ Return(t)
  /\ UNCHANGED <<bufFields, links, sleeplock, bucketsLocks, bcacheLock, ticks,
                 panicked, t_held, history>>

(***************************************************************************)
(* brelse                                                                  *)
(***************************************************************************)
\* lines 203-206: the caller releases the buffer it got from bread
Brelse203(t) ==
  /\ ~panicked /\ pc[t] = "idle" /\ t_held[t] # 0
  /\ UNCHANGED <<kvars, variant>>
  /\ t_b' = [t_b EXCEPT ![t] = t_held[t]]
  /\ t_held' = [t_held EXCEPT ![t] = 0]
  /\ IF sleeplock[t_held[t]] # t
     THEN /\ panicked' = TRUE
          /\ pc' = [pc EXCEPT ![t] = "panic"]
          /\ UNCHANGED sleeplock
     ELSE /\ sleeplock' = [sleeplock EXCEPT ![t_held[t]] = 0]
          /\ pc' = [pc EXCEPT ![t] = "brelse208"]
          /\ UNCHANGED panicked
  /\ UNCHANGED <<bufFields, links, bucketsLocks, bcacheLock, ticks,
                 t_blockno, t_hashId, scanLocals, history>>

\* mutant: brelse always refreshes the time stamp
RefreshTicks_Always(r) == TRUE

\* line 212: is the time stamp refreshed, given the decremented refcnt?
RefreshTicks(r) == r = 0

\* lines 208-225: the decrement under the lock of b's bucket
Brelse208(t) ==
  /\ ~panicked /\ pc[t] = "brelse208"
  /\ UNCHANGED <<kvars, variant>>
  /\ bucketsLocks[haskBlock(blockno[t_b[t]])] = 0
  /\ LET b == t_b[t] IN
       /\ refcnt' = [refcnt EXCEPT ![b] = @ - 1]
       /\ bticks' = IF RefreshTicks(refcnt[b] - 1)
                    THEN [bticks EXCEPT ![b] = ticks] ELSE bticks
  /\ Return(t)
  /\ UNCHANGED <<dev, blockno, valid, links, sleeplock, bucketsLocks,
                 bcacheLock, ticks,
                 panicked, t_held, history>>

(***************************************************************************)
(* bpin / bunpin                                                           *)
(***************************************************************************)
\* bpin lines 229-234: called by the holder of the buffer (as log_write does)
Bpin(t) ==
  /\ ~panicked /\ pc[t] = "idle" /\ t_held[t] # 0
  /\ UNCHANGED <<kvars, variant>>
  /\ pins[t_held[t]] < MaxPins
  /\ bucketsLocks[haskBlock(blockno[t_held[t]])] = 0
  /\ refcnt' = [refcnt EXCEPT ![t_held[t]] = @ + 1]
  /\ pins' = [pins EXCEPT ![t_held[t]] = @ + 1]
  /\ UNCHANGED <<dev, blockno, valid, bticks, links, sleeplock, bucketsLocks,
                 bcacheLock, ticks, panicked, pc, t_blockno, t_hashId, t_b,
                 scanLocals, t_held, nbread, ioCount>>

\* bunpin lines 237-242: undoes an earlier bpin of b; the caller need not
\* hold b
Bunpin(t) ==
  /\ ~panicked /\ pc[t] = "idle"
  /\ UNCHANGED <<kvars, variant>>
  /\ \E b \in Bufs :
       /\ pins[b] > 0
       /\ bucketsLocks[haskBlock(blockno[b])] = 0
       /\ refcnt' = [refcnt EXCEPT ![b] = @ - 1]
       /\ pins' = [pins EXCEPT ![b] = @ - 1]
  /\ UNCHANGED <<dev, blockno, valid, bticks, links, sleeplock, bucketsLocks,
                 bcacheLock, ticks, panicked, pc, t_blockno, t_hashId, t_b,
                 scanLocals, t_held, nbread, ioCount>>

BgetStep(t) ==
  \/ Bget87(t) \/ Bget101(t) \/ Bget103(t) \/ Bget124(t) \/ Bget125(t)
  \/ Bget143(t)
  \/ Bget161(t) \/ Bget169(t) \/ AcquireSleep(t) \/ Bread182(t) \/ Bread184(t)

Next ==
  \/ Tick
  \/ \E t \in Threads :
       \/ CallBread(t) \/ BgetStep(t)
       \/ Bwrite193(t) \/ Bwrite195(t)
       \/ Brelse203(t) \/ Brelse208(t)
       \/ Bpin(t) \/ Bunpin(t)

Spec == Init /\ [][Next]_vars

(***************************************************************************)
(* The page allocator: calls.                                              *)
(***************************************************************************)
Deltas == {0 - 1, 1}
BadAddrs == {PGSIZE, FirstFrame + 8, PHYSTOP}

KQuiet(t) == \A u \in Threads \ {t} : kpc[u] = "idle"

\* the scenario: kalloc, increref(f, +1), kfree(f), kfree(f), kalloc, run
\* from boot with no other call in between
ScenExpects(op, pa, d) ==
  \/ scen \in {0, 4} /\ op = "kalloc"
  \/ scen = 1 /\ op = "increref" /\ pa = scenFrame /\ d = 1
  \/ scen \in {2, 3} /\ op = "kfree" /\ pa = scenFrame

ScenOnCall(t, op, pa, d) ==
  IF scen \in 0..4 /\ KQuiet(t) /\ ScenExpects(op, pa, d) THEN scen
  ELSE 0 - 1

\* a frame address the caller may pass to kfree
KfreeInputs ==
  IF callers = "any" THEN FrameAddrs \cup BadAddrs
  ELSE {f \in FrameAddrs : refsHeld[f] > 0}

IncrerefInputs ==
  IF callers = "any" THEN FrameAddrs \X Deltas
  ELSE {f \in FrameAddrs : refsHeld[f] > 0} \X {1}

KReturn(t) ==
  /\ kpc' = [kpc EXCEPT ![t] = "idle"]
  /\ k_pa' = [k_pa EXCEPT ![t] = 0]
  /\ k_temp' = [k_temp EXCEPT ![t] = 0]

CallKfree(t) ==
  /\ ~panicked /\ kpc[t] = "idle" /\ nkcalls < MaxKCalls
  /\ \E pa \in KfreeInputs :
       /\ k_pa' = [k_pa EXCEPT ![t] = pa]
       /\ refsHeld' = IF callers = "any" THEN refsHeld
                      ELSE [refsHeld EXCEPT ![pa] = @ - 1]
       /\ rt' = IF pa \in FrameAddrs
                THEN [rt EXCEPT ![pa] = IF @ = "alloc" THEN "freeing"
                                        ELSE "none"]
                ELSE rt
       /\ scen' = ScenOnCall(t, "kfree", pa, 0)
       /\ scenFrame' = IF ScenOnCall(t, "kfree", pa, 0) < 0 THEN 0
                       ELSE scenFrame
       /\ scenRet' = IF ScenOnCall(t, "kfree", pa, 0) < 0 THEN 0 ELSE scenRet
  /\ kpc' = [kpc EXCEPT ![t] = "kfree71"]
  /\ nkcalls' = nkcalls + 1
  /\ UNCHANGED <<ref, freelist, runNext, kmemLock, krefLock, k_temp, callers,
                 panicked, bcOther>>

\* kfree lines 71-72
Kfree71(t) ==
  /\ ~panicked /\ kpc[t] = "kfree71"
  /\ IF KfreeBadAddr(k_pa[t])
     THEN /\ panicked' = TRUE
          /\ kpc' = [kpc EXCEPT ![t] = "panic72"]
     ELSE /\ kpc' = [kpc EXCEPT ![t] = "kfree74"]
          /\ UNCHANGED panicked
  /\ UNCHANGED <<ref, freelist, runNext, kmemLock, krefLock, k_pa, k_temp,
                 callers, refsHeld, nkcalls, rt, scen, scenFrame, scenRet,
                 bcOther>>

\* kfree lines 74-89: the decrement under kref.lock, and the early return
Kfree74(t) ==
  /\ ~panicked /\ kpc[t] = "kfree74"
  /\ krefLock = 0
  /\ LET n == PageOf(k_pa[t])
         temp == ref[n] - 1
     IN
       IF ref[n] <= 0
       THEN /\ krefLock' = t
            /\ panicked' = TRUE
            /\ kpc' = [kpc EXCEPT ![t] = "panic78"]
            /\ UNCHANGED <<ref, k_pa, k_temp, rt, scen, scenFrame, scenRet>>
       ELSE /\ ref' = [ref EXCEPT ![n] = temp]
            /\ UNCHANGED <<krefLock, panicked>>
            /\ IF KfreeReturnsEarly(temp)
               THEN /\ KReturn(t)
                    /\ rt' = [rt EXCEPT ![k_pa[t]] = "none"]
                    /\ scen' = IF scen >= 0 THEN scen + 1 ELSE scen
                    /\ UNCHANGED <<scenFrame, scenRet>>
               ELSE /\ kpc' = [kpc EXCEPT ![t] = "kfree97"]
                    /\ k_temp' = [k_temp EXCEPT ![t] = temp]
                    /\ UNCHANGED <<k_pa, rt, scen, scenFrame, scenRet>>
  /\ UNCHANGED <<freelist, runNext, kmemLock, callers, refsHeld, nkcalls,
                 bcOther>>

\* kfree line 97: fill with junk
Kfree97(t) ==
  /\ ~panicked /\ kpc[t] = "kfree97"
  /\ runNext' = [runNext EXCEPT ![k_pa[t]] = JUNK]
  /\ kpc' = [kpc EXCEPT ![t] = "kfree101"]
  /\ UNCHANGED <<ref, freelist, kmemLock, krefLock, k_pa, k_temp, callers,
                 refsHeld, nkcalls, rt, scen, scenFrame, scenRet, panicked,
                 bcOther>>

\* mutant: kfree returns without linking the run into kmem.freelist
Kfree101_NoPush(t) ==
  /\ ~panicked /\ kpc[t] = "kfree101"
  /\ kmemLock = 0
  /\ rt' = [rt EXCEPT ![k_pa[t]] = IF @ = "freeing" THEN "freed" ELSE "none"]
  /\ scen' = IF scen >= 0 THEN scen + 1 ELSE scen
  /\ KReturn(t)
  /\ UNCHANGED <<ref, freelist, runNext, kmemLock, krefLock, callers,
                 refsHeld, nkcalls, scenFrame, scenRet, panicked, bcOther>>

\* kfree lines 99-105: push under kmem.lock
Kfree101(t) ==
  /\ ~panicked /\ kpc[t] = "kfree101"
  /\ kmemLock = 0
  /\ freelist' = Push(freelist, runNext, k_pa[t]).freelist
  /\ runNext' = Push(freelist, runNext, k_pa[t]).runNext
  /\ rt' = [rt EXCEPT ![k_pa[t]] = IF @ = "freeing" THEN "freed" ELSE "none"]
  /\ scen' = IF scen >= 0 THEN scen + 1 ELSE scen
  /\ KReturn(t)
  /\ UNCHANGED <<ref, kmemLock, krefLock, callers, refsHeld, nkcalls,
                 scenFrame, scenRet, panicked, bcOther>>

CallKalloc(t) ==
  /\ ~panicked /\ kpc[t] = "idle" /\ nkcalls < MaxKCalls
  /\ kpc' = [kpc EXCEPT ![t] = "kalloc115"]
  /\ nkcalls' = nkcalls + 1
  /\ scen' = ScenOnCall(t, "kalloc", 0, 0)
  /\ scenFrame' = IF ScenOnCall(t, "kalloc", 0, 0) < 0 THEN 0 ELSE scenFrame
  /\ scenRet' = IF ScenOnCall(t, "kalloc", 0, 0) < 0 THEN 0 ELSE scenRet
  /\ UNCHANGED <<ref, freelist, runNext, kmemLock, krefLock, k_pa, k_temp,
                 callers, refsHeld, rt, panicked, bcOther>>

\* kalloc lines 115-118 (and 129-133 when the list is empty): pop the head
\* under kmem.lock; reading r->next through a junk pointer faults
Kalloc115(t) ==
  /\ ~panicked /\ kpc[t] = "kalloc115"
  /\ kmemLock = 0
  /\ IF freelist = 0
     THEN /\ KReturn(t)
          /\ scen' = 0 - 1 /\ scenFrame' = 0 /\ scenRet' = 0
          /\ UNCHANGED <<freelist, kmemLock, rt, panicked>>
     ELSE IF freelist \notin FrameAddrs
     THEN /\ kmemLock' = t
          /\ panicked' = TRUE
          /\ kpc' = [kpc EXCEPT ![t] = "panicfault"]
          /\ UNCHANGED <<freelist, k_pa, k_temp, rt, scen, scenFrame, scenRet>>
     ELSE /\ freelist' = runNext[freelist]
          /\ k_pa' = [k_pa EXCEPT ![t] = freelist]
          /\ kmemLock' = t
          /\ kpc' = [kpc EXCEPT ![t] = "kalloc119"]
          /\ rt' = [rt EXCEPT ![freelist] = IF @ = "freed" THEN "popped"
                                            ELSE "none"]
          /\ UNCHANGED <<k_temp, scen, scenFrame, scenRet, panicked>>
  /\ UNCHANGED <<ref, runNext, krefLock, callers, refsHeld, nkcalls, bcOther>>

\* kalloc lines 119-129: the count goes from 0 to 1 under kref.lock
Kalloc119(t) ==
  /\ ~panicked /\ kpc[t] = "kalloc119"
  /\ krefLock = 0
  /\ LET n == PageOf(k_pa[t]) IN
       IF ref[n] # 0
       THEN /\ krefLock' = t
            /\ panicked' = TRUE
            /\ kpc' = [kpc EXCEPT ![t] = "panic122"]
            /\ UNCHANGED <<ref, kmemLock>>
       ELSE /\ ref' = [ref EXCEPT ![n] = 1]
            /\ kmemLock' = 0
            /\ kpc' = [kpc EXCEPT ![t] = "kalloc132"]
            /\ UNCHANGED <<krefLock, panicked>>
  /\ UNCHANGED <<freelist, runNext, k_pa, k_temp, callers, refsHeld, nkcalls,
                 rt, scen, scenFrame, scenRet, bcOther>>

\* kalloc lines 131-133: fill with junk and return r
Kalloc132(t) ==
  /\ ~panicked /\ kpc[t] = "kalloc132"
  /\ runNext' = [runNext EXCEPT ![k_pa[t]] = JUNK]
  /\ refsHeld' = IF callers = "any" THEN refsHeld
                 ELSE [refsHeld EXCEPT ![k_pa[t]] = 1]
  /\ rt' = [rt EXCEPT ![k_pa[t]] = "alloc"]
  /\ scen' = IF scen >= 0 THEN scen + 1 ELSE scen
  /\ scenFrame' = IF scen = 0 THEN k_pa[t] ELSE scenFrame
  /\ scenRet' = IF scen >= 0 THEN k_pa[t] ELSE scenRet
  /\ KReturn(t)
  /\ UNCHANGED <<ref, freelist, kmemLock, krefLock, callers, nkcalls,
                 panicked, bcOther>>

\* increref lines 40-49
Increref(t) ==
  /\ ~panicked /\ kpc[t] = "idle" /\ nkcalls < MaxKCalls
  /\ krefLock = 0
  /\ \E in \in IncrerefInputs :
       LET pa == in[1]
           count == in[2]
           n == PageOf(pa)
           temp == ref[n] + count
           s1 == ScenOnCall(t, "increref", pa, count)
       IN  /\ temp \in (0 - MaxRef)..MaxRef
           /\ ref' = [ref EXCEPT ![n] = temp]
           /\ refsHeld' = IF callers = "any" THEN refsHeld
                          ELSE [refsHeld EXCEPT ![pa] = @ + 1]
           /\ rt' = [rt EXCEPT ![pa] = "none"]
           /\ scen' = IF s1 >= 0 THEN s1 + 1 ELSE s1
           /\ scenFrame' = IF s1 >= 0 THEN scenFrame ELSE 0
           /\ scenRet' = IF s1 >= 0 THEN temp ELSE 0
  /\ nkcalls' = nkcalls + 1
  /\ UNCHANGED <<freelist, runNext, kmemLock, krefLock, kpc, k_pa, k_temp,
                 callers, panicked, bcOther>>

KNext ==
  \E t \in Threads :
    \/ CallKfree(t) \/ Kfree71(t) \/ Kfree74(t) \/ Kfree97(t) \/ Kfree101(t)
    \/ CallKalloc(t) \/ Kalloc115(t) \/ Kalloc119(t) \/ Kalloc132(t)
    \/ Increref(t)

SpecKalloc == Init /\ [][KNext]_vars
SpecKallocAny == InitAny /\ [][KNext]_vars

(***************************************************************************)
(* The scenario of two concurrent misses in one bucket: after binit,       *)
(* thread 1 is in bget(ROOTDEV, 1) and thread 2 in bget(ROOTDEV, 14).      *)
(***************************************************************************)
Pair == {1, 2}
PairBlock(t) == IF t = 1 THEN 1 ELSE 14

InitPair ==
  /\ dev = [b \in Bufs |-> 0]
  /\ blockno = [b \in Bufs |-> 0]
  /\ valid = [b \in Bufs |-> 0]
  /\ refcnt = [b \in Bufs |-> 0]
  /\ bticks = [b \in Bufs |-> 0]
  /\ next = BinitLinks.next
  /\ prev = BinitLinks.prev
  /\ sleeplock = [b \in Bufs |-> 0]
  /\ bucketsLocks = [k \in Buckets |-> 0]
  /\ bcacheLock = 0
  /\ ticks = 0
  /\ panicked = FALSE
  /\ pc = [t \in Threads |-> IF t \in Pair THEN "bget87" ELSE "idle"]
  /\ t_blockno = [t \in Threads |-> IF t \in Pair THEN PairBlock(t) ELSE 0]
  /\ t_hashId = [t \in Threads |-> IF t \in Pair THEN haskBlock(PairBlock(t))
                                   ELSE 0]
  /\ t_b = [t \in Threads |-> 0]
  /\ t_held = [t \in Threads |-> 0]
  /\ t_i = [t \in Threads |-> 0]
  /\ t_bMin = [t \in Threads |-> 0]
  /\ t_minTicks = [t \in Threads |-> 0]
  /\ t_minId = [t \in Threads |-> 0]
  /\ nbread = 2
  /\ pins = [b \in Bufs |-> 0]
  /\ ioCount = [b \in Bufs |-> 0]
  /\ KInit /\ callers = "disciplined" /\ variant = "global"

NextPair == Tick \/ \E t \in Pair : BgetStep(t)

\* every thread that can take a step eventually does (the scheduler runs
\* each CPU; a spinning acquire succeeds once the lock stays free)
SpecPair == InitPair /\ [][NextPair]_vars /\ \A t \in Pair : WF_vars(BgetStep(t))

(***************************************************************************)
(* The buffer cache of src/kernel/bio.c: the same structure and binit, but *)
(* bget evicts under one bucket lock at a time, without bcache.lock, and   *)
(* does not move the victim between lists; brelse relinks the buffer.      *)
(* A load or store through a null pointer is a kernel page fault.          *)
(***************************************************************************)
WalkFuel == NBUF + NBUCKETS + 2

\* the fields of a list node: the bucket heads and bcache.head are zeroed
\* struct bufs that nothing writes
RefOf(n) == IF n \in Bufs THEN refcnt[n] ELSE 0
TicksOf(n) == IF n \in Bufs THEN bticks[n] ELSE 0

\* the lookup loop of bget (bio.c lines 90-97) from node b in the list of
\* head h: "found" with the buffer, "miss" at the head, "fault" at a null
\* pointer, "hang" when the list does not come back to h
RECURSIVE BioLookup(_, _, _, _, _)
BioLookup(b, h, d, bn, fuel) ==
  IF b = h THEN [st |-> "miss", b |-> 0]
  ELSE IF b = 0 THEN [st |-> "fault", b |-> 0]
  ELSE IF fuel = 0 THEN [st |-> "hang", b |-> 0]
  ELSE IF b \in Bufs /\ dev[b] = d /\ blockno[b] = bn
       THEN [st |-> "found", b |-> b]
  ELSE BioLookup(next[b], h, d, bn, fuel - 1)

\* bio.c line 107: b is unreferenced and not younger than bMin
BioIsCandidate(b, bMin) == RefOf(b) = 0 /\ TicksOf(b) <= TicksOf(bMin)

\* the inner loop of the scan (bio.c lines 106-112) over bucket i;
\* acc = [bMin, minId, st]
RECURSIVE BioScanList(_, _, _, _)
BioScanList(b, i, acc, fuel) ==
  IF b = BucketHead(i) THEN acc
  ELSE IF b = 0 THEN [acc EXCEPT !.st = "fault"]
  ELSE IF fuel = 0 THEN [acc EXCEPT !.st = "hang"]
  ELSE IF BioIsCandidate(b, acc.bMin)
       THEN BioScanList(next[b], i, [bMin |-> b, minId |-> i, st |-> "ok"],
                        fuel - 1)
  ELSE BioScanList(next[b], i, acc, fuel - 1)

\* brelse, bio.c lines 173-179, on buffer b with h = &bcache.buckets[hashId]:
\* the links after the statements that ran, and whether one of them faulted
BioRelink(b, h) ==
  IF next[b] = 0 THEN [next |-> next, prev |-> prev, fault |-> TRUE]
  ELSE LET p1 == [prev EXCEPT ![next[b]] = prev[b]] IN
    IF p1[b] = 0 THEN [next |-> next, prev |-> p1, fault |-> TRUE]
    ELSE LET n1 == [next EXCEPT ![p1[b]] = next[b]]
             n2 == [n1 EXCEPT ![b] = n1[BcacheHead]]
             p2 == [p1 EXCEPT ![b] = BcacheHead]
         IN  IF n2[h] = 0 THEN [next |-> n2, prev |-> p2, fault |-> TRUE]
             ELSE [next |-> [n2 EXCEPT ![h] = b],
                   prev |-> [p2 EXCEPT ![n2[h]] = b],
                   fault |-> FALSE]

BioCallBread(t) ==
  /\ ~panicked /\ pc[t] = "idle" /\ t_held[t] = 0
  /\ UNCHANGED <<kvars, variant>>
  /\ nbread < MaxBioBread
  /\ nbread' = nbread + 1
  /\ \E bn \in BlockNos :
       /\ t_blockno' = [t_blockno EXCEPT ![t] = bn]
       /\ t_hashId' = [t_hashId EXCEPT ![t] = haskBlock(bn)]
  /\ pc' = [pc EXCEPT ![t] = "bio87"]
  /\ UNCHANGED <<bufFields, links, sleeplock, bucketsLocks, bcacheLock, ticks,
                 panicked, t_b, scanLocals, t_held, pins, ioCount>>

\* bio.c lines 86-102: the lookup under the bucket's lock; on a miss bMin
\* starts as the bucket's head
BioBget87(t) ==
  /\ ~panicked /\ pc[t] = "bio87"
  /\ UNCHANGED <<kvars, variant>>
  /\ bucketsLocks[t_hashId[t]] = 0
  /\ LET h == BucketHead(t_hashId[t])
         r == BioLookup(next[h], h, ROOTDEV, t_blockno[t], WalkFuel)
     IN
       IF r.st = "found"
       THEN /\ refcnt' = [refcnt EXCEPT ![r.b] = @ + 1]
            /\ t_b' = [t_b EXCEPT ![t] = r.b]
            /\ pc' = [pc EXCEPT ![t] = "bio94"]
            /\ UNCHANGED <<bucketsLocks, panicked, scanLocals>>
       ELSE IF r.st = "miss"
       THEN /\ t_bMin' = [t_bMin EXCEPT ![t] = h]
            /\ t_minId' = [t_minId EXCEPT ![t] = 0]
            /\ t_i' = [t_i EXCEPT ![t] = 0]
            /\ pc' = [pc EXCEPT ![t] = "bio105"]
            /\ UNCHANGED <<refcnt, t_b, bucketsLocks, panicked, t_minTicks>>
       ELSE /\ bucketsLocks' = [bucketsLocks EXCEPT ![t_hashId[t]] = t]
            /\ panicked' = (r.st = "fault")
            /\ pc' = [pc EXCEPT ![t] = IF r.st = "fault" THEN "panicfault"
                                       ELSE "hang"]
            /\ UNCHANGED <<refcnt, t_b, scanLocals>>
  /\ UNCHANGED <<dev, blockno, valid, bticks, links, sleeplock, bcacheLock,
                 ticks, t_blockno, t_hashId, t_held, history>>

\* bio.c lines 104-114: one iteration of the outer loop, under the lock of
\* bucket i
BioBget105(t) ==
  /\ ~panicked /\ pc[t] = "bio105"
  /\ UNCHANGED <<kvars, variant>>
  /\ bucketsLocks[t_i[t]] = 0
  /\ LET i == t_i[t]
         acc == BioScanList(next[BucketHead(i)], i,
                            [bMin |-> t_bMin[t], minId |-> t_minId[t],
                             st |-> "ok"], WalkFuel)
     IN
       IF acc.st = "ok"
       THEN /\ t_bMin' = [t_bMin EXCEPT ![t] = acc.bMin]
            /\ t_minId' = [t_minId EXCEPT ![t] = acc.minId]
            /\ t_i' = [t_i EXCEPT ![t] = i + 1]
            /\ pc' = [pc EXCEPT ![t] = IF i + 1 < NBUCKETS THEN "bio105"
                                       ELSE "bio117"]
            /\ UNCHANGED <<bucketsLocks, panicked>>
       ELSE /\ bucketsLocks' = [bucketsLocks EXCEPT ![i] = t]
            /\ panicked' = (acc.st = "fault")
            /\ pc' = [pc EXCEPT ![t] = IF acc.st = "fault" THEN "panicfault"
                                       ELSE "hang"]
            /\ UNCHANGED <<t_bMin, t_minId, t_i>>
  /\ UNCHANGED <<bufFields, links, sleeplock, bcacheLock, ticks, t_blockno,
                 t_hashId, t_b, t_minTicks, t_held, history>>

\* bio.c lines 117-127: panic when no candidate was found (valid is 1
\* exactly when bMin is a buffer), else rebind bMin under the lock of minId;
\* the buffer stays in the list it is in
BioBget117(t) ==
  /\ ~panicked /\ pc[t] = "bio117"
  /\ UNCHANGED <<kvars, variant>>
  /\ LET bMin == t_bMin[t] IN
       IF bMin \notin Bufs
       THEN /\ panicked' = TRUE
            /\ pc' = [pc EXCEPT ![t] = "panic"]
            /\ UNCHANGED <<bufFields, t_b, ioCount>>
       ELSE /\ bucketsLocks[t_minId[t]] = 0
            /\ dev' = [dev EXCEPT ![bMin] = ROOTDEV]
            /\ blockno' = [blockno EXCEPT ![bMin] = t_blockno[t]]
            /\ valid' = [valid EXCEPT ![bMin] = 0]
            /\ refcnt' = [refcnt EXCEPT ![bMin] = 1]
            /\ bticks' = [bticks EXCEPT ![bMin] = ticks]
            /\ t_b' = [t_b EXCEPT ![t] = bMin]
            /\ ioCount' = [ioCount EXCEPT ![bMin] = 0]
            /\ pc' = [pc EXCEPT ![t] = "bio128"]
            /\ UNCHANGED panicked
  /\ UNCHANGED <<links, sleeplock, bucketsLocks, bcacheLock, ticks, t_blockno,
                 t_hashId, scanLocals, t_held, nbread, pins>>

\* acquiresleep(&b->lock) at bio.c lines 94 and 128, then bget returns b
BioAcquireSleep(t) ==
  /\ ~panicked /\ pc[t] \in {"bio94", "bio128"}
  /\ UNCHANGED <<kvars, variant>>
  /\ sleeplock[t_b[t]] = 0
  /\ sleeplock' = [sleeplock EXCEPT ![t_b[t]] = t]
  /\ pc' = [pc EXCEPT ![t] = "bio140"]
  /\ UNCHANGED <<bufFields, links, bucketsLocks, bcacheLock, ticks, panicked,
                 t_blockno, t_hashId, t_b, scanLocals, t_held, history>>

\* bread, bio.c lines 140-141
BioBread140(t) ==
  /\ ~panicked /\ pc[t] = "bio140"
  /\ UNCHANGED <<kvars, variant>>
  /\ IF valid[t_b[t]] = 0
     THEN /\ ioCount' = [ioCount EXCEPT ![t_b[t]] = @ + 1]
          /\ pc' = [pc EXCEPT ![t] = "bio142"]
          /\ UNCHANGED <<t_held, t_blockno, t_hashId, t_b, scanLocals>>
     ELSE /\ Return(t)
          /\ t_held' = [t_held EXCEPT ![t] = t_b[t]]
          /\ UNCHANGED ioCount
  /\ UNCHANGED <<bufFields, links, sleeplock, bucketsLocks, bcacheLock, ticks,
                 panicked, nbread, pins>>

\* bread, bio.c lines 142-144
BioBread142(t) ==
  /\ ~panicked /\ pc[t] = "bio142"
  /\ UNCHANGED <<kvars, variant>>
  /\ valid' = [valid EXCEPT ![t_b[t]] = 1]
  /\ t_held' = [t_held EXCEPT ![t] = t_b[t]]
  /\ Return(t)
  /\ UNCHANGED <<dev, blockno, refcnt, bticks, links, sleeplock, bucketsLocks,
                 bcacheLock, ticks, panicked, history>>

\* brelse, bio.c lines 161-164
BioBrelse161(t) ==
  /\ ~panicked /\ pc[t] = "idle" /\ t_held[t] # 0
  /\ UNCHANGED <<kvars, variant>>
  /\ t_b' = [t_b EXCEPT ![t] = t_held[t]]
  /\ t_held' = [t_held EXCEPT ![t] = 0]
  /\ IF sleeplock[t_held[t]] # t
     THEN /\ panicked' = TRUE
          /\ pc' = [pc EXCEPT ![t] = "panic"]
          /\ UNCHANGED sleeplock
     ELSE /\ sleeplock' = [sleeplock EXCEPT ![t_held[t]] = 0]
          /\ pc' = [pc EXCEPT ![t] = "bio166"]
          /\ UNCHANGED panicked
  /\ UNCHANGED <<bufFields, links, bucketsLocks, bcacheLock, ticks,
                 t_blockno, t_hashId, scanLocals, history>>

\* brelse, bio.c lines 166-182: the decrement and, at 0, the move of b to
\* the front of the list of bucket haskBlock(b->blockno), under that
\* bucket's lock.  refcnt is kept as an integer: below 0 it stands for the
\* wrapped unsigned value, which is not 0 either.
BioBrelse166(t) ==
  /\ ~panicked /\ pc[t] = "bio166"
  /\ UNCHANGED <<kvars, variant>>
  /\ LET b == t_b[t]
         hashId == haskBlock(blockno[b])
         l == BioRelink(b, BucketHead(hashId))
     IN
       /\ bucketsLocks[hashId] = 0
       /\ refcnt' = [refcnt EXCEPT ![b] = @ - 1]
       /\ IF refcnt[b] - 1 # 0
          THEN /\ Return(t)
               /\ UNCHANGED <<links, bucketsLocks, panicked>>
          ELSE /\ next' = l.next
               /\ prev' = l.prev
               /\ IF l.fault
                  THEN /\ bucketsLocks' = [bucketsLocks EXCEPT ![hashId] = t]
                       /\ panicked' = TRUE
                       /\ pc' = [pc EXCEPT ![t] = "panicfault"]
                       /\ UNCHANGED <<t_blockno, t_hashId, t_b, scanLocals>>
                  ELSE /\ Return(t)
                       /\ UNCHANGED <<bucketsLocks, panicked>>
  /\ UNCHANGED <<dev, blockno, valid, bticks, sleeplock, bcacheLock, ticks,
                 t_held, history>>

\* bpin and bunpin (bio.c lines 185-199) are the code of the other variant
BioNext ==
  \/ Tick
  \/ \E t \in Threads :
       \/ BioCallBread(t) \/ BioBget87(t) \/ BioBget105(t) \/ BioBget117(t)
       \/ BioAcquireSleep(t) \/ BioBread140(t) \/ BioBread142(t)
       \/ BioBrelse161(t) \/ BioBrelse166(t)
       \/ Bpin(t) \/ Bunpin(t)

InitBio == BcInit /\ KInit /\ callers = "disciplined" /\ variant = "shard"

SpecBio == InitBio /\ [][BioNext]_vars

\* the kernel is built with one of the two variants
InitBoth ==
  BcInit /\ KInit /\ callers = "disciplined" /\ variant \in {"global", "shard"}

NextBoth ==
  \/ variant = "global" /\ Next
  \/ variant = "shard" /\ BioNext

SpecBoth == InitBoth /\ [][NextBoth]_vars

(***************************************************************************)
(* Properties of the buffer cache.                                         *)
(***************************************************************************)
\* thread t has taken a reference to b in bget and not yet dropped it in brelse
HasRef(t, b) ==
  \/ t_held[t] = b
  \/ /\ pc[t] \in SleepPcs \cup {"bget161", "bget169", "bread182", "bread184",
                                 "brelse208"}
     /\ t_b[t] = b

\* thread t is between acquiresleep(&b->lock) and releasesleep(&b->lock)
HoldsSleep(t, b) ==
  \/ t_held[t] = b
  \/ pc[t] \in {"bread182", "bread184"} /\ t_b[t] = b

\* C1: at most one thread holds a buffer's sleep lock at any time, and the
\* buffer's refcnt is the number of callers that acquired it and have not
\* released it (plus the bpin calls not yet undone).
C1_ExclusiveAndCounted ==
  \A b \in Bufs :
    /\ Cardinality({t \in Threads : HoldsSleep(t, b)}) <= 1
    /\ refcnt[b] = Cardinality({t \in Threads : HasRef(t, b)}) + pins[b]

\* one thread holds b while another, already counted, waits for its sleep lock
C1_Witness ==
  \E b \in Bufs : \E t1, t2 \in Threads :
    /\ t1 # t2 /\ t_held[t1] = b
    /\ pc[t2] \in SleepPcs /\ t_b[t2] = b
    /\ refcnt[b] = 2 /\ pins[b] = 0

\* C3: a key is bound to at most one buffer, and every bget of that key gets
\* that buffer, so that repeated and concurrent bgets of a key return the
\* same buffer until the binding is evicted.
C3_SameBuffer ==
  /\ \A b1, b2 \in Bufs :
       (dev[b1] = ROOTDEV /\ dev[b2] = ROOTDEV /\ blockno[b1] = blockno[b2])
         => b1 = b2
  /\ \A t \in Threads : \A b \in Bufs :
       (HasRef(t, b) /\ t_held[t] # b /\ pc[t] # "brelse208")
         => (dev[b] = ROOTDEV /\ blockno[b] = t_blockno[t])

\* two threads missed on one key: one rebound a victim, the other found it in
\* the second lookup
C3_Witness ==
  \E t1, t2 \in Threads : \E b \in Bufs :
    /\ t1 # t2 /\ pc[t1] = "bget111" /\ t_b[t1] = b
    /\ HasRef(t2, b) /\ refcnt[b] = 2 /\ pins[b] = 0

\* C4: a miss rebinds only a buffer whose refcnt is 0, and it panics when
\* every buffer has refcnt > 0.
C4_EvictUnreferencedOrPanic ==
  [][\A t \in Threads :
       (pc[t] = "bget143" /\ pc'[t] # "bget143") =>
         /\ IF t_bMin[t] = 0 THEN panicked' /\ UNCHANGED bufFields
            ELSE /\ refcnt[t_bMin[t]] = 0
                 /\ pc'[t] \in {"bget161", "bget169"}
                 /\ blockno'[t_bMin[t]] = t_blockno[t]
         /\ (\A b \in Bufs : refcnt[b] > 0) => panicked']_vars

\* every buffer is referenced and the miss has panicked
C4_Witness ==
  /\ panicked
  /\ \A b \in Bufs : refcnt[b] > 0
  /\ \E t \in Threads : pc[t] = "panic" /\ t_bMin[t] = 0

\* C5: the buffer bget rebinds has, at that moment, the least ticks of all
\* buffers with refcnt 0.
C5_GlobalLRU ==
  [][\A t \in Threads :
       (pc[t] = "bget143" /\ pc'[t] # "bget143" /\ t_bMin[t] # 0) =>
         \A b \in Bufs : refcnt[b] = 0 => bticks[t_bMin[t]] <= bticks[b]]_vars

\* C6: the device is read exactly once per binding of a buffer: a buffer is
\* valid exactly when it was read once since it was bound, and bread returns
\* a buffer that is valid.
C6_ReadOncePerBinding ==
  \A b \in Bufs :
    /\ ioCount[b] <= 1
    /\ valid[b] = 1 => ioCount[b] = 1
    /\ \A t \in Threads : t_held[t] = b => (valid[b] = 1 /\ ioCount[b] = 1)

\* a second bread of the only key ever bound returned the valid buffer
C6_Witness ==
  \E t \in Threads : \E b \in Bufs :
    /\ t_held[t] = b /\ nbread >= 2 /\ ioCount[b] = 1
    /\ \A t2 \in Threads \ {t} : pc[t2] = "idle" /\ t_held[t2] = 0
    /\ \A b2 \in Bufs \ {b} : dev[b2] = 0

\* C7: two threads that miss at the same time on two blocks of one bucket
\* (1 and 14), with two unreferenced buffers, both return, with different
\* buffers.
C7_BothReturn ==
  <>(/\ t_held[1] # 0 /\ t_held[2] # 0 /\ t_held[1] # t_held[2]
     /\ blockno[t_held[1]] = 1 /\ blockno[t_held[2]] = 14)

C7_Witness ==
  /\ t_held[1] # 0 /\ t_held[2] # 0 /\ t_held[1] # t_held[2]
  /\ blockno[t_held[1]] = 1 /\ blockno[t_held[2]] = 14
  /\ pc[1] = "idle" /\ pc[2] = "idle"

\* the buffers a traversal of bucket k meets (the loops at lines 90, 106 and
\* 126), in order
RECURSIVE BucketList(_, _, _)
BucketList(n, k, fuel) ==
  IF n = BucketHead(k) \/ n \notin Bufs \/ fuel = 0 THEN <<>>
  ELSE <<n>> \o BucketList(next[n], k, fuel - 1)

ListOf(k) == BucketList(next[BucketHead(k)], k, NBUF + 1)
TimesInList(b, k) == Cardinality({i \in DOMAIN ListOf(k) : ListOf(k)[i] = b})
InList(b, k) == TimesInList(b, k) > 0

\* thread t has unlinked b from its old bucket and not yet linked it into
\* the new one
Migrating(t, b) == pc[t] = "bget161" /\ t_bMin[t] = b

\* C12: every buffer is in exactly one bucket's list, once, except a buffer
\* that a bget holding bcache.lock is moving between two buckets; no other
\* thread holds, waits for or has selected that buffer meanwhile.
C12_InExactlyOneList ==
  \A b \in Bufs :
    LET ks == {k \in Buckets : InList(b, k)} IN
      \/ /\ Cardinality(ks) = 1
         /\ \A k \in ks : TimesInList(b, k) = 1
         /\ \A t \in Threads : ~Migrating(t, b)
      \/ /\ ks = {}
         /\ \E t \in Threads :
              /\ Migrating(t, b) /\ bcacheLock = t
              /\ \A u \in Threads \ {t} :
                   t_b[u] # b /\ t_bMin[u] # b /\ t_held[u] # b

\* a buffer is between two buckets while another thread is inside bget
C12_Witness ==
  \E b \in Bufs : \E t, u \in Threads :
    /\ t # u /\ Migrating(t, b)
    /\ \A k \in Buckets : ~InList(b, k)
    /\ pc[u] \in {"bget87", "bget101"}

\* C13: a buffer whose dev or blockno changes has refcnt 0, no pin and no
\* holder or waiter at that step, whatever hits, bpin, bunpin and brelse run
\* concurrently: the identity of a held or pinned buffer never changes.
C13_RebindOnlyUnreferenced ==
  [][\A b \in Bufs :
       (dev'[b] # dev[b] \/ blockno'[b] # blockno[b]) =>
         /\ refcnt[b] = 0 /\ pins[b] = 0
         /\ \A t \in Threads : ~HasRef(t, b)
         /\ \E t \in Threads : pc[t] = "bget143" /\ t_bMin[t] = b]_vars

\* a miss has selected a bound buffer and holds its bucket's lock while
\* another thread is looking that buffer's block up
C13_Witness ==
  \E t, u \in Threads : \E b \in Bufs :
    /\ t # u /\ pc[t] \in {"bget124", "bget125", "bget143"} /\ t_bMin[t] = b
    /\ dev[b] = ROOTDEV /\ refcnt[b] = 0
    /\ pc[u] = "bget87" /\ t_blockno[u] = blockno[b]
    /\ bucketsLocks[t_hashId[u]] = t

\* thread t is about to call acquiresleep (lines 94, 111, 170) or
\* virtio_disk_rw (lines 183 and 195)
AtSuspension(t) ==
  \/ pc[t] \in SleepPcs
  \/ pc[t] = "bread182" /\ NeedsRead(t_b[t])
  \/ pc[t] = "bwrite195"

HoldsSpinlock(t) == bcacheLock = t \/ \E k \in Buckets : bucketsLocks[k] = t

\* C14: a thread that is about to call acquiresleep or virtio_disk_rw, in
\* bget, bread or bwrite, holds neither bcache.lock nor a bucket's lock, and
\* brelse holds none when it returns.
C14_NoSpinlockAcrossSleep ==
  \A t \in Threads :
    (AtSuspension(t) \/ pc[t] \in {"idle", "bread184", "brelse208"})
      => ~HoldsSpinlock(t)

\* a hit in the second lookup waits for the buffer's sleep lock, which
\* another thread holds, while bcache.lock is free
C14_Witness ==
  \E t \in Threads :
    /\ pc[t] = "bget111" /\ sleeplock[t_b[t]] \notin {0, t}
    /\ bcacheLock = 0 /\ \A k \in Buckets : bucketsLocks[k] = 0

\* the bucket locks thread t holds
LocksHeld(t) == {k \in Buckets : bucketsLocks[k] = t}

\* thread t is in the victim scan or about to rebind, with a candidate
HasCandidate(t) ==
  pc[t] \in {"bget124", "bget125", "bget143"} /\ t_bMin[t] # 0

\* the scan of bucket i that thread t is about to run finds a better
\* candidate in it
FindsBetter(t) ==
  ScanList(next[BucketHead(t_i[t])], t_i[t],
           [bMin |-> t_bMin[t], minTicks |-> t_minTicks[t],
            minId |-> t_minId[t], valid |-> 0, locks |-> bucketsLocks],
           NBUF + 1).valid = 1

\* the lock of the candidate's bucket is held from the selection to the
\* rebind
CandidateStaysLocked ==
  \A t \in Threads :
    HasCandidate(t) =>
      /\ bucketsLocks[t_minId[t]] = t
      /\ InList(t_bMin[t], t_minId[t])
      /\ refcnt[t_bMin[t]] = 0

BucketMatchesHash(k) ==
  \A i \in DOMAIN ListOf(k) : haskBlock(blockno[ListOf(k)[i]]) = k

\* the step is the refcnt change of a brelse, bpin or bunpin on b
ChangesRefOutsideBget(b) ==
  \/ pins'[b] # pins[b]
  \/ \E t \in Threads : pc[t] = "brelse208" /\ pc'[t] = "idle" /\ t_b[t] = b

\* C19: whenever the lock of bucket k is free, every buffer in bucket k's
\* list has blockno mod 13 = k; so brelse, bpin and bunpin, which take the
\* lock haskBlock(b->blockno), change refcnt under the lock of the bucket
\* whose list contains b.
C19_LockOfOwningBucket ==
  /\ [](\A k \in Buckets : bucketsLocks[k] = 0 => BucketMatchesHash(k))
  /\ [][\A b \in Bufs :
          ChangesRefOutsideBget(b) =>
            /\ refcnt'[b] # refcnt[b]
            /\ bucketsLocks[haskBlock(blockno[b])] = 0
            /\ TimesInList(b, haskBlock(blockno[b])) = 1]_vars

\* a buffer that was moved to another bucket has been released there and a
\* pin on it is outstanding
C19_Witness ==
  \E b \in Bufs :
    /\ dev[b] = ROOTDEV /\ haskBlock(blockno[b]) # 0
    /\ InList(b, haskBlock(blockno[b]))
    /\ pins[b] = 1 /\ refcnt[b] = 1 /\ valid[b] = 1
    /\ \A t \in Threads : pc[t] = "idle" /\ t_held[t] = 0
    /\ \A k \in Buckets : bucketsLocks[k] = 0

\* the step is a brelse of b: the release of the sleep lock or the decrement
BrelseStepOn(t, b) ==
  \/ pc[t] = "idle" /\ pc'[t] = "brelse208" /\ t_held[t] = b
  \/ pc[t] = "brelse208" /\ pc'[t] = "idle" /\ t_b[t] = b

DupKey ==
  \E b1, b2 \in Bufs :
    b1 # b2 /\ dev[b1] = ROOTDEV /\ dev[b2] = ROOTDEV
    /\ blockno[b1] = blockno[b2]

\* thread t is past the first lookup of a miss and has not finished the
\* eviction (either variant)
InEviction(t) ==
  pc[t] \in {"bget103", "bget124", "bget125", "bget143", "bget161",
             "bget169", "bio105", "bio117"}

\* C16: with the per-bucket-only eviction of src/kernel/bio.c two concurrent
\* misses can rebind two victims to one key (the witness) or select one
\* victim twice; with bcache.lock (src/unnamed/part_000) no two threads are
\* in the eviction at once, no key is bound twice and no two threads have
\* selected the same victim.
C16_GlobalLockClosesRace ==
  variant = "global" =>
    /\ ~DupKey
    /\ \A t1, t2 \in Threads :
         (t1 # t2 /\ InEviction(t1)) => ~InEviction(t2)

\* bio.c: two misses on one key were in the eviction together and each has
\* rebound its own victim to the key
C16_Witness ==
  /\ variant = "shard"
  /\ \E t1, t2 \in Threads :
       /\ t1 # t2 /\ pc[t1] = "bio128" /\ pc[t2] = "bio128"
       /\ t_blockno[t1] = t_blockno[t2] /\ t_b[t1] # t_b[t2]
       /\ \A t \in {t1, t2} :
            dev[t_b[t]] = ROOTDEV /\ blockno[t_b[t]] = t_blockno[t]

\* bio.c: two concurrent misses have selected the same victim
C16_SameVictimTwice ==
  /\ variant = "shard"
  /\ \E t1, t2 \in Threads :
       /\ t1 # t2 /\ pc[t1] = "bio117" /\ pc[t2] = "bio117"
       /\ t_bMin[t1] \in Bufs /\ t_bMin[t1] = t_bMin[t2]

\* C17: a bget of src/kernel/bio.c fails fatally only when no buffer has
\* refcnt 0: a miss issued while some buffer is unreferenced finds a victim
\* and returns, after any bget/brelse and any advance of ticks.
C17_FatalOnlyWhenAllReferenced ==
  [][\A t \in Threads :
       (pc[t] \in {"bio87", "bio105", "bio117"}
        /\ pc'[t] \in {"panic", "panicfault", "hang"})
         => \A b \in Bufs : refcnt[b] # 0]_vars

\* the nodes a traversal of bucket k meets before it is back at the head; 0
\* marks a null or foreign pointer, or a list that does not close
RECURSIVE BioWalk(_, _, _)
BioWalk(n, h, fuel) ==
  IF n = h THEN <<>>
  ELSE IF n \notin Bufs \/ fuel = 0 THEN <<0>>
  ELSE <<n>> \o BioWalk(next[n], h, fuel - 1)

BioListOf(k) == BioWalk(next[BucketHead(k)], BucketHead(k), NBUF + 1)

\* bucket k's list is circular through its head and prev mirrors next
BioWellFormed(k) ==
  LET w == BioListOf(k)
      ring == <<BucketHead(k)>> \o w \o <<BucketHead(k)>>
  IN  /\ \A i \in DOMAIN w : w[i] # 0
      /\ \A i \in 1..(Len(ring) - 1) :
           ring[i + 1] # 0 => prev[ring[i + 1]] = ring[i]

\* C18: after any sequence of bget, brelse, bpin and bunpin of
\* src/kernel/bio.c, every bucket's list is a well-formed circular doubly
\* linked list through its head and holds exactly the buffers whose blockno
\* hashes to the bucket.
C18_ListsMatchHash ==
  (\A t \in Threads : pc[t] = "idle") =>
    \A k \in Buckets :
      /\ BioWellFormed(k)
      /\ {BioListOf(k)[i] : i \in DOMAIN BioListOf(k)}
           = {b \in Bufs : haskBlock(blockno[b]) = k}

(***************************************************************************)
(* Properties of the page allocator.                                       *)
(***************************************************************************)
KAllIdle == \A t \in Threads : kpc[t] = "idle"

\* C2: whatever kalloc, kfree and increref calls are made, no frame's count is
\* ever negative and no frame is on the free list with a count other than 0.
C2_CountsSound ==
  \A f \in FrameAddrs :
    /\ ref[PageOf(f)] >= 0
    /\ OnFreeList(f) => ref[PageOf(f)] = 0

\* the scenario run from boot on the frame the first kalloc is said to return
ScenarioOn(f) ==
  KAllIdle =>
    /\ scen = 1 => (scenFrame = f /\ scenRet = f /\ ref[PageOf(f)] = 1
                    /\ ~OnFreeList(f))
    /\ scen = 2 => (scenRet = 2 /\ ref[PageOf(f)] = 2)
    /\ scen = 3 => (ref[PageOf(f)] = 1 /\ ~OnFreeList(f))
    /\ scen = 4 => (ref[PageOf(f)] = 0 /\ OnFreeList(f) /\ freelist = f)
    /\ scen = 5 => (scenRet = f /\ ref[PageOf(f)] = 1 /\ ~OnFreeList(f))

\* C8 as stated: after boot over the frames A < B < C < D, kalloc returns A
\* with count 1, increref(A, +1) returns 2, kfree(A) leaves count 1 and A off
\* the free list, the second kfree(A) leaves count 0 and A on the free list,
\* and the next kalloc returns A.
C8_ScenarioFirstFrame == ScenarioOn(FirstFrame)

\* C8 amended: the same scenario runs on D, the last frame swept, which is at
\* the head of the free list after boot.
C8_ScenarioLastFrame == ScenarioOn(LastFrame)

\* the scenario has run to its end
C8_Witness == scen = 5 /\ KAllIdle /\ scenRet = LastFrame

\* C9: a frame that kalloc returned and that is then passed to kfree, with no
\* other call on it, has count 1 until the kfree, count 0 after it, is then
\* once on the free list, and a kalloc that pops it sets its count to 1
\* without panicking.
C9_RoundTrip ==
  /\ [](\A f \in FrameAddrs :
          /\ rt[f] = "alloc" => (ref[PageOf(f)] = 1 /\ ~OnFreeList(f))
          /\ rt[f] = "freed" => (ref[PageOf(f)] = 0 /\ CountOnFreeList(f) = 1)
          /\ rt[f] = "popped" =>
               /\ ~OnFreeList(f)
               /\ \E t \in Threads :
                    /\ k_pa[t] = f
                    /\ \/ kpc[t] = "kalloc119" /\ ref[PageOf(f)] = 0
                       \/ kpc[t] = "kalloc132" /\ ref[PageOf(f)] = 1)
  /\ [][\A t \in Threads :
          /\ (kpc[t] = "kfree101" /\ kpc'[t] = "idle"
              /\ rt[k_pa[t]] = "freeing")
               => (rt'[k_pa[t]] = "freed" /\ freelist' = k_pa[t])
          /\ (kpc[t] = "kalloc119" /\ kpc'[t] # "kalloc119"
              /\ rt[k_pa[t]] = "popped")
               => (~panicked' /\ ref'[PageOf(k_pa[t])] = 1
                   /\ kpc'[t] = "kalloc132")]_vars

\* a frame went through kalloc, kfree and kalloc again
C9_Witness ==
  \E t \in Threads :
    /\ kpc[t] = "kalloc132" /\ rt[k_pa[t]] = "popped"
    /\ ref[PageOf(k_pa[t])] = 1

\* C10: kfree panics when the address is not page-aligned, is below end or is
\* at or above PHYSTOP, and when the count is <= 0 before the decrement; it
\* panics in no other case, and a kfree that panics changes no count and not
\* the free list.
C10_KfreePanics ==
  [][\A t \in Threads :
       /\ (kpc[t] = "kfree71" /\ kpc'[t] # "kfree71") =>
            /\ panicked' <=> (k_pa[t] % PGSIZE # 0 \/ k_pa[t] < end
                              \/ k_pa[t] >= PHYSTOP)
            /\ UNCHANGED <<ref, freelist, runNext>>
       /\ (kpc[t] = "kfree74" /\ kpc'[t] # "kfree74") =>
            /\ panicked' <=> ref[PageOf(k_pa[t])] <= 0
            /\ panicked' => UNCHANGED <<ref, freelist, runNext>>]_vars

\* a kfree of a frame whose count is 0 or less has panicked
C10_Witness ==
  \E t \in Threads :
    /\ kpc[t] = "panic78" /\ panicked
    /\ ref[PageOf(k_pa[t])] <= 0

\* C11: a kfree that brought a frame's count to 0 pushes the frame with the
\* count still 0 at the push, in every interleaving of kalloc, kfree and
\* increref calls: nothing changes the count between the decrement and the
\* push, and the frame enters the free list unreferenced.
C11_FreeIsOneTransaction ==
  [][\A t \in Threads :
       (kpc[t] = "kfree101" /\ kpc'[t] = "idle") =>
         /\ ref[PageOf(k_pa[t])] = 0
         /\ ref'[PageOf(k_pa[t])] = 0
         /\ freelist' = k_pa[t]]_vars

====
